---- MODULE Spec2Model ----
(***************************************************************************)
(* Model of voice-alexa-helper (src/index.js): getOr, find,                *)
(* getSlotValuesFromMatch and getSlotValueId, run over a JavaScript object *)
(* graph.  Objects and arrays live in a heap and are named by address, so  *)
(* that "the same reference" and "unchanged input" are statements about    *)
(* addresses and cells.  Scalars are tagged records of one shape.          *)
(***************************************************************************)
EXTENDS Integers, Sequences, FiniteSets, TLC

VARIABLES
  op,         \* the exported or internal function under call: "getOr", "find", "slot"
  pc,         \* position of the call
  heap,       \* address -> cell: every object and array of the run
  root,       \* getOr: the object argument
  path,       \* getOr: the path argument
  def,        \* getOr and find: the defaultValue argument
  envelope,   \* getSlotValueId: the requestEnvelope argument
  slotName,   \* getSlotValueId: the slotName argument
  auths,      \* how the resolutionsPerAuthority list of the envelope was built
  cut,        \* where and how the envelope stops short of resolutionsPerAuthority
  listForm,   \* how the list handed to find carries its length
  array,      \* find: the array argument
  pred,       \* find: the predicate argument
  i,          \* find: the loop index
  calls,      \* find: the indexes the predicate was called on, in call order
  findRet,    \* what find returned to getSlotValuesFromMatch
  emptyValue, \* getSlotValuesFromMatch: the array made at line 45
  lookups,    \* getSlotValuesFromMatch: own-property checks made by its path lookup
  valuesRet,  \* outcome of getSlotValuesFromMatch
  result,     \* outcome of the call
  round,      \* how many times the call was repeated
  prev        \* outcomes of the previous round

vars == <<op, pc, heap, root, path, def, envelope, slotName, auths, cut, listForm,
          array, pred, i, calls, findRet, emptyValue, lookups, valuesRet, result, round, prev>>

-----------------------------------------------------------------------------
(* Bounds of the model *)

\* longest path handed to getOr
MaxPath == 3
\* longest array handed to find
MaxLen == 3
\* longest resolutionsPerAuthority list
MaxAuth == 2
\* how many times a call is repeated with the same arguments
MaxRepeat == 1
\* how far the scan of a list without end is followed
MaxScan == 6

-----------------------------------------------------------------------------
(* JavaScript values *)

Undef == [t |-> "undef", s |-> "", n |-> 0]
Null == [t |-> "null", s |-> "", n |-> 0]
Num(k) == [t |-> "num", s |-> "", n |-> k]
Bool(b) == [t |-> "bool", s |-> "", n |-> IF b THEN 1 ELSE 0]
Str(x) == [t |-> "str", s |-> x, n |-> 0]
Ref(a) == [t |-> "ref", s |-> "", n |-> a]
\* the built-in function Array.prototype.values, the one value the code can
\* read off a prototype (line 60, of an authority that is an array)
ArrayValues == [t |-> "fn", s |-> "values", n |-> 0]

\* the literal compared against in the predicate of getSlotValuesFromMatch
ER_SUCCESS_MATCH == Str("ER_SUCCESS_MATCH")
\* the literal compared against the request type
IntentRequest == Str("IntentRequest")

IsNullish(v) == v.t \in {"undef", "null"}

\* ToBoolean, as applied by the ! operator
Truthy(v) ==
  CASE v.t = "undef" -> FALSE
    [] v.t = "null" -> FALSE
    [] v.t = "num" -> v.n # 0
    [] v.t = "bool" -> v.n = 1
    [] v.t = "str" -> v.s # ""
    [] v.t \in {"ref", "fn"} -> TRUE

RECURSIVE DigitString(_)
\* decimal form of a natural number (an array index)
DigitString(k) ==
  IF k >= 10 THEN DigitString(k \div 10) \o DigitString(k % 10)
  ELSE CASE k = 0 -> "0" [] k = 1 -> "1" [] k = 2 -> "2" [] k = 3 -> "3"
         [] k = 4 -> "4" [] k = 5 -> "5" [] k = 6 -> "6" [] k = 7 -> "7"
         [] k = 8 -> "8" [] k = 9 -> "9"

\* ToString of an integer
IntegerString(k) == IF k < 0 THEN "-" \o DigitString(0 - k) ELSE DigitString(k)

\* the character of the string x at position j, counted from 1
Char(x, j) == SubSeq(x, j, j)

\* the string x without its first k characters
Drop(x, k) == SubSeq(x, k + 1, Len(x))

\* the characters of a primitive string
StrChars(x) == [j \in 1..Len(x) |-> Char(x, j)]

\* own properties of the String object that ToObject makes of a primitive string
StringProps(x) ==
  LET cs == StrChars(x)
  IN  [k \in {DigitString(j - 1) : j \in 1..Len(cs)} \cup {"length"} |->
         IF k = "length" THEN Num(Len(cs))
         ELSE Str(cs[(CHOOSE j \in 1..Len(cs) : DigitString(j - 1) = k)])]

-----------------------------------------------------------------------------
(* The heap *)

NoProps == [k \in {} |-> Undef]
FreeCell == [kind |-> "free", props |-> NoProps]
Obj(props) == [kind |-> "obj", props |-> props]

\* an array: index properties "0".."n-1" and length
Arr(elems) ==
  [kind |-> "arr",
   props |-> [k \in {DigitString(j - 1) : j \in 1..Len(elems)} \cup {"length"} |->
                IF k = "length" THEN Num(Len(elems))
                ELSE elems[(CHOOSE j \in 1..Len(elems) : DigitString(j - 1) = k)]]]

\* a string, or the TypeError raised in place of one
Text(x) == [throws |-> FALSE, s |-> x]
NoText == [throws |-> TRUE, s |-> ""]

RECURSIVE StringOf(_, _)
\* ToString, as ToPropertyKey and ToNumber apply it. An object that owns a
\* toString property raises a TypeError: no value of the model is a function
\* that returns a primitive, and the inherited valueOf returns the object. An
\* array joins the strings of its elements with commas, null and undefined
\* elements as empty strings, unless it owns a join property: Array.prototype.
\* values as join returns an object (TypeError), any other join is not
\* callable ("[object Array]"). A plain object is "[object Object]"
StringOf(h, v) ==
  CASE v.t = "undef" -> Text("undefined")
    [] v.t = "null" -> Text("null")
    [] v.t = "num" -> Text(IntegerString(v.n))
    [] v.t = "bool" -> Text(IF v.n = 1 THEN "true" ELSE "false")
    [] v.t = "str" -> Text(v.s)
    [] v.t = "fn" -> Text("function " \o v.s \o "() { [native code] }")
    [] v.t = "ref" ->
         LET props == h[v.n].props
             item(j) == LET e == IF DigitString(j - 1) \in DOMAIN props
                                 THEN props[DigitString(j - 1)] ELSE Undef
                        IN  IF IsNullish(e) THEN Text("") ELSE StringOf(h, e)
             join[j \in 0..props["length"].n] ==
               IF j = 0 THEN Text("")
               ELSE IF join[j - 1].throws \/ item(j).throws THEN NoText
               ELSE IF j = 1 THEN item(1)
               ELSE Text(join[j - 1].s \o "," \o item(j).s)
         IN  IF "toString" \in DOMAIN props THEN NoText
             ELSE IF h[v.n].kind # "arr" THEN Text("[object Object]")
             ELSE IF "join" \in DOMAIN props
                  THEN IF props["join"].t = "fn" THEN NoText ELSE Text("[object Array]")
             ELSE join[props["length"].n]

\* ToPropertyKey raises a TypeError: the key is an object that cannot be made
\* a string
KeyThrows(h, key) == StringOf(h, key).throws

\* ToPropertyKey: a property key is a string; a key that is not one is made a
\* string (a number its decimal form, true "true", undefined "undefined")
ToPropertyKey(h, key) == StringOf(h, key).s

\* the address of the object that is the length of a list
LengthAddr == 8

ListForms ==
  {"array", "lengthString", "lengthPadded", "lengthFraction", "lengthExponent",
   "lengthHex", "lengthTrue", "lengthArray", "lengthInfinity", "lengthObject"}

\* the length property of a list of n elements that is not an array: a string
\* that array.length converts to a number (n written in decimal, with white
\* space and a leading zero, as a number between n - 1 and n, with an
\* exponent, in hexadecimal, n below 10), true, the array [n], the string
\* Infinity, or an object that cannot be converted
LengthValue(n, form) ==
  CASE form = "lengthString" -> Str(DigitString(n))
    [] form = "lengthPadded" -> Str(" \t0" \o DigitString(n) \o "\n")
    [] form = "lengthFraction" ->
         Str(IF n = 0 THEN "-.5" ELSE "+" \o DigitString(n - 1) \o ".25")
    [] form = "lengthExponent" -> Str(DigitString(n) \o "0.e-1")
    [] form = "lengthHex" -> Str("0X" \o DigitString(n))
    [] form = "lengthTrue" -> Bool(TRUE)
    [] form = "lengthInfinity" -> Str("Infinity")
    [] form \in {"lengthArray", "lengthObject"} -> Ref(LengthAddr)

\* the object that is the length of a list of n elements: the array [n], or
\* {toString: 1}, which no conversion to a number accepts
LengthCell(n, form) ==
  CASE form = "lengthArray" -> Arr(<<Num(n)>>)
    [] form = "lengthObject" -> Obj([toString |-> Num(1)])
    [] OTHER -> FreeCell

\* a list handed to find: an array, or an object with the same index
\* properties and a length that is not a number
List(elems, form) ==
  IF form = "array" THEN Arr(elems)
  ELSE Obj([k \in DOMAIN Arr(elems).props |->
              IF k = "length" THEN LengthValue(Len(elems), form) ELSE Arr(elems).props[k]])

\* the own properties of ToObject(v), v not null or undefined
OwnProps(h, v) ==
  CASE v.t = "ref" -> h[v.n].props
    [] v.t = "str" -> StringProps(v.s)
    [] v.t = "fn" -> [length |-> Num(0), name |-> Str(v.s)]
    [] v.t \in {"num", "bool"} -> NoProps

\* Object.prototype.hasOwnProperty.call(object, key) raises a TypeError on
\* null and undefined (ToObject)
ToObjectThrows(object) == IsNullish(object)

\* Object.prototype.hasOwnProperty.call(object, key), object not nullish and
\* key one that can be made a string
HasOwnProperty(h, object, key) == ToPropertyKey(h, key) \in DOMAIN OwnProps(h, object)

\* what object takes from its prototype chain under the name key, for the
\* names read outside a hasOwnProperty guard (length, the indexes, values,
\* and request and type of the envelope): an array inherits values from
\* Array.prototype, and no prototype of an object, array, string, number,
\* boolean or function holds another of them
Inherited(h, object, key) ==
  IF object.t = "ref" /\ h[object.n].kind = "arr" /\ key = "values" THEN ArrayValues
  ELSE Undef

\* object[key], object not nullish (array.length, array[i],
\* firstResolution.values, and object[nextKey] of line 19): the own property,
\* else the inherited one
Get(h, object, key) ==
  IF ToPropertyKey(h, key) \in DOMAIN OwnProps(h, object)
  THEN OwnProps(h, object)[ToPropertyKey(h, key)]
  ELSE Inherited(h, object, ToPropertyKey(h, key))

\* a JavaScript number, as far as the < operator tells numbers apart: NaN, an
\* infinity, or the decimal digits * 10^exp with its sign (digits most
\* significant first)
NaN == [kind |-> "nan", neg |-> FALSE, digits |-> <<>>, exp |-> 0]
\* in place of a number: the TypeError raised by a conversion
TypeError == [kind |-> "throw", neg |-> FALSE, digits |-> <<>>, exp |-> 0]
Infinity(neg) == [kind |-> "inf", neg |-> neg, digits |-> <<>>, exp |-> 0]
Finite(neg, digits, exp) == [kind |-> "fin", neg |-> neg, digits |-> digits, exp |-> exp]

RECURSIVE NatDigits(_)
\* the decimal digits of a natural number, none for 0
NatDigits(k) == IF k = 0 THEN <<>> ELSE NatDigits(k \div 10) \o <<k % 10>>

\* the number that is the integer k
Number(k) == Finite(k < 0, NatDigits(IF k < 0 THEN 0 - k ELSE k), 0)

\* the element of a set of one element: the value of an expression, computed
\* once and named by the variable bound to it
Only(S) == CHOOSE v \in S : TRUE

\* the white space that StringToNumber strips from both ends: the characters
\* of StrWhiteSpaceChar that a string of the model can hold (tab, line feed,
\* vertical tab, form feed, carriage return, space)
WhiteSpace == {" ", "\t", "\n", "", "\f", "\r"}

\* x from its first to its last character that is not white space
Trim(x) ==
  LET inner == {j \in 1..Len(x) : Char(x, j) \notin WhiteSpace}
  IN  IF inner = {} THEN ""
      ELSE SubSeq(x, CHOOSE j \in inner : \A k \in inner : j <= k,
                     CHOOSE j \in inner : \A k \in inner : j >= k)

\* the value of a digit character, 99 for any other character
DigitValue(c) ==
  CASE c = "0" -> 0 [] c = "1" -> 1 [] c = "2" -> 2 [] c = "3" -> 3 [] c = "4" -> 4
    [] c = "5" -> 5 [] c = "6" -> 6 [] c = "7" -> 7 [] c = "8" -> 8 [] c = "9" -> 9
    [] c \in {"a", "A"} -> 10 [] c \in {"b", "B"} -> 11 [] c \in {"c", "C"} -> 12
    [] c \in {"d", "D"} -> 13 [] c \in {"e", "E"} -> 14 [] c \in {"f", "F"} -> 15
    [] OTHER -> 99

\* x is one or more digits of the radix
AllDigits(x, radix) == x # "" /\ \A j \in 1..Len(x) : DigitValue(Char(x, j)) < radix

\* the digit values of a string of digits
DigitsOf(x) == [j \in 1..Len(x) |-> DigitValue(Char(x, j))]

\* the number of decimal digits x starts with
DigitRun(x) ==
  LET others == {j \in 1..Len(x) : DigitValue(Char(x, j)) >= 10}
  IN  IF others = {} THEN Len(x) ELSE (CHOOSE j \in others : \A k \in others : j <= k) - 1

RECURSIVE MulAdd(_, _, _)
\* the decimal digits, least significant first, of d * m + c
MulAdd(d, m, c) ==
  IF d = <<>> THEN (IF c = 0 THEN <<>> ELSE <<c % 10>> \o MulAdd(<<>>, m, c \div 10))
  ELSE <<(Head(d) * m + c) % 10>> \o MulAdd(Tail(d), m, (Head(d) * m + c) \div 10)

Reverse(s) == [j \in 1..Len(s) |-> s[Len(s) + 1 - j]]

RECURSIVE RadixDigits(_, _, _)
\* the decimal digits, least significant first, of the digits x of the radix,
\* acc what the digits read so far make
RadixDigits(x, radix, acc) ==
  IF x = "" THEN acc
  ELSE Only({RadixDigits(Drop(x, 1), radix, next) :
               next \in {MulAdd(acc, radix, DigitValue(Char(x, 1)))}})

\* an exponent beyond this is as good as this one: the number is 0 or infinite
ExponentCap == 100000000

\* digits without their leading zeros
StripZeros(d) ==
  LET others == {j \in 1..Len(d) : d[j] # 0}
  IN  IF others = {} THEN <<>>
      ELSE SubSeq(d, CHOOSE j \in others : \A k \in others : j <= k, Len(d))

RECURSIVE NaturalOf(_, _)
\* the natural number of the first n digits of d, n at most nine
NaturalOf(d, n) == IF n = 0 THEN 0 ELSE NaturalOf(d, n - 1) * 10 + d[n]

\* the value of a string of decimal digits, at most ExponentCap
ExponentValue(x) ==
  Only({IF Len(d) > 8 THEN ExponentCap ELSE NaturalOf(d, Len(d)) :
          d \in {StripZeros(DigitsOf(x))}})

\* the number of characters of the fraction of the decimal literal x, the
\* point and the digits after it, a the number of digits before it
FractionRun(x, a) ==
  IF a < Len(x) /\ Char(x, a + 1) = "." THEN 1 + DigitRun(Drop(x, a + 1)) ELSE 0

\* the decimal literal x of a digits, an optional point and f digits, and the
\* characters rest, which must be an exponent or none
DecimalAfterFraction(x, neg, a, f, rest) ==
  LET mantissa == DigitsOf(SubSeq(x, 1, a)) \o DigitsOf(SubSeq(x, a + 2, a + 1 + f))
      expSigned == Len(rest) >= 2 /\ Char(rest, 2) \in {"+", "-"}
      expDigits == Drop(rest, IF expSigned THEN 2 ELSE 1)
  IN  IF a + f = 0 THEN NaN
      ELSE IF rest = "" THEN Finite(neg, mantissa, 0 - f)
      ELSE IF Char(rest, 1) \in {"e", "E"} /\ AllDigits(expDigits, 10)
           THEN Finite(neg, mantissa,
                       (IF expSigned /\ Char(rest, 2) = "-"
                        THEN 0 - ExponentValue(expDigits)
                        ELSE ExponentValue(expDigits)) - f)
      ELSE NaN

\* the decimal literal x of a digits and what follows them
DecimalAfterInteger(x, neg, a) ==
  Only({DecimalAfterFraction(x, neg, a, IF p = 0 THEN 0 ELSE p - 1, Drop(x, a + p)) :
          p \in {FractionRun(x, a)}})

\* StrUnsignedDecimalLiteral other than Infinity: digits, with an optional
\* fraction (digits may miss on one side of the point) and an optional exponent
StrDecimalLiteral(x, neg) == Only({DecimalAfterInteger(x, neg, a) : a \in {DigitRun(x)}})

\* StrNumericLiteral, t without white space at its ends: the empty string is
\* 0; 0x, 0o and 0b start an unsigned integer of that radix; else an optional
\* sign, then Infinity or a decimal literal; any other string is NaN
StrNumericLiteral(t) ==
  LET prefix == IF Len(t) >= 2 THEN SubSeq(t, 1, 2) ELSE ""
      radix == CASE prefix \in {"0x", "0X"} -> 16
                 [] prefix \in {"0o", "0O"} -> 8
                 [] prefix \in {"0b", "0B"} -> 2
                 [] OTHER -> 10
      signed == t # "" /\ Char(t, 1) \in {"+", "-"}
      neg == signed /\ Char(t, 1) = "-"
      body == IF signed THEN Drop(t, 1) ELSE t
  IN  IF t = "" THEN Number(0)
      ELSE IF radix # 10
           THEN IF AllDigits(Drop(t, 2), radix)
                THEN Finite(FALSE, Reverse(RadixDigits(Drop(t, 2), radix, <<>>)), 0)
                ELSE NaN
      ELSE IF body = "Infinity" THEN Infinity(neg)
      ELSE StrDecimalLiteral(body, neg)

\* StringToNumber: white space is stripped from both ends of x, and what is
\* left is read as a numeric literal
StringToNumber(x) == Only({StrNumericLiteral(t) : t \in {Trim(x)}})

\* ToNumber, as the < operator applies it to its right operand: an object or
\* function is first made a string, which raises a TypeError when it cannot be
ToNumber(h, v) ==
  CASE v.t = "undef" -> NaN
    [] v.t = "null" -> Number(0)
    [] v.t \in {"num", "bool"} -> Number(v.n)
    [] v.t = "str" -> StringToNumber(v.s)
    [] v.t \in {"ref", "fn"} ->
         Only({IF text.throws THEN TypeError ELSE StringToNumber(text.s) :
                 text \in {StringOf(h, v)}})

\* the order of two digit sequences of one length, differ the positions at
\* which they differ: -1, 0 or 1
OrderAt(a, b, differ) ==
  LET first == CHOOSE j \in differ : \A k \in differ : j <= k
  IN  IF differ = {} THEN 0 ELSE IF a[first] < b[first] THEN -1 ELSE 1

\* the order of two digit sequences of one length
CompareDigits(a, b) ==
  Only({OrderAt(a, b, differ) : differ \in {{j \in 1..Len(a) : a[j] # b[j]}}})

\* the order of two naturals given by their digits without leading zeros
CompareNaturals(a, b) ==
  IF Len(a) # Len(b) THEN (IF Len(a) < Len(b) THEN -1 ELSE 1) ELSE CompareDigits(a, b)

\* the first n of the digits d followed by zeros
PadRight(d, n) == [j \in 1..n |-> IF j <= Len(d) THEN d[j] ELSE 0]

\* the order of two fractions given by the digits after the point
CompareFractions(a, b) ==
  Only({CompareDigits(p, q) :
          p \in {PadRight(a, IF Len(a) < Len(b) THEN Len(b) ELSE Len(a))},
          q \in {PadRight(b, IF Len(a) < Len(b) THEN Len(b) ELSE Len(a))}})

RECURSIVE Log2(_)
\* the exponent of the highest power of 2 that is at most k, k >= 1
Log2(k) == IF k < 2 THEN 0 ELSE 1 + Log2(k \div 2)

\* the digits after the point of 2^(e - 53), e = 0..30, at index e + 1: half the
\* distance from a double of [2^e, 2^(e+1)) to the next double
HalfUlpStrings ==
  <<
    "00000000000000011102230246251565404236316680908203125",
    "0000000000000002220446049250313080847263336181640625",
    "000000000000000444089209850062616169452667236328125",
    "00000000000000088817841970012523233890533447265625",
    "0000000000000017763568394002504646778106689453125",
    "000000000000003552713678800500929355621337890625",
    "00000000000000710542735760100185871124267578125",
    "0000000000000142108547152020037174224853515625",
    "000000000000028421709430404007434844970703125",
    "00000000000005684341886080801486968994140625",
    "0000000000001136868377216160297393798828125",
    "000000000000227373675443232059478759765625",
    "00000000000045474735088646411895751953125",
    "0000000000009094947017729282379150390625",
    "000000000001818989403545856475830078125",
    "00000000000363797880709171295166015625",
    "0000000000072759576141834259033203125",
    "000000000014551915228366851806640625",
    "00000000002910383045673370361328125",
    "0000000000582076609134674072265625",
    "000000000116415321826934814453125",
    "00000000023283064365386962890625",
    "0000000004656612873077392578125",
    "000000000931322574615478515625",
    "00000000186264514923095703125",
    "0000000037252902984619140625",
    "000000007450580596923828125",
    "00000001490116119384765625",
    "0000000298023223876953125",
    "000000059604644775390625",
    "00000011920928955078125"
  >>

HalfUlpDigits == [e \in 1..31 |-> DigitsOf(HalfUlpStrings[e])]

\* the digits after the point of half the distance from the double k to the
\* next double, k >= 1
HalfUlp(k) == HalfUlpDigits[Log2(k) + 1]

\* the 752 digits of 5^1075: 2^-1075, half the least positive double, is
\* 0.HalfMinValue * 10^-323
HalfMinValue ==
  "2470328229206232720882843964341106861825299013071623822127928412" \o
  "5033775363510437593264991818081799618989828234772285886546332835" \o
  "5177969898199387398005390939063150356595155702263922908583924491" \o
  "0518443593180284993653615250031937045767824921936562366986365848" \o
  "0757001585769269903706311928279558551332927834338409351978015531" \o
  "2465972635795746227664652728272200563740064854999770965994704540" \o
  "2082816622623785739345073633900796776193057750674017632467360096" \o
  "8951340535537458516661134223766678604162159680461914467291840300" \o
  "5300575308490487653917113865916462395249126236538818796362393732" \o
  "8042389101867234849766823508986338858792562830275599565752445550" \o
  "7255189313690836254779186948667994968324049705821028513185451396" \o
  "213837722826145437693412532098591327667236328125"

HalfMinDigits == DigitsOf(HalfMinValue)

\* idx < the positive number d * 10^(point - Len(d)), d digits without leading
\* zeros, as the < operator decides it on doubles: a decimal literal denotes
\* the double nearest to it, the even one when two are as near. Below 1 the
\* number exceeds 0 unless it rounds to 0; with the integer part idx it
\* exceeds idx when the fraction exceeds half the distance to the next double
LessThanPositive(idx, d, point) ==
  LET whole == PadRight(d, point)
      fraction == IF point < Len(d) THEN SubSeq(d, point + 1, Len(d)) ELSE <<>>
  IN  IF point <= 0
      THEN /\ idx = 0
           /\ \/ point > -323
              \/ point = -323 /\ CompareFractions(d, HalfMinDigits) = 1
      ELSE IF point > 10 THEN TRUE
      ELSE IF CompareNaturals(whole, NatDigits(idx)) # 0
           THEN CompareNaturals(whole, NatDigits(idx)) = 1
      ELSE CompareFractions(fraction, HalfUlp(idx)) = 1

\* idx < number for a natural idx: false for NaN, for a negative number and
\* for 0
LessThan(idx, number) ==
  CASE number.kind = "nan" -> FALSE
    [] number.kind = "inf" -> ~number.neg
    [] number.kind = "fin" ->
         /\ ~number.neg
         /\ \E d \in {StripZeros(number.digits)} :
              d # <<>> /\ LessThanPositive(idx, d, Len(d) + number.exp)

-----------------------------------------------------------------------------
(* Outcomes of a call: a returned value or a raised TypeError; looked counts *)
(* the hasOwnProperty checks made                                           *)

Ret(v, k) == [kind |-> "ret", val |-> v, looked |-> k]
Throw(k) == [kind |-> "throw", val |-> Undef, looked |-> k]
None == [kind |-> "none", val |-> Undef, looked |-> 0]

RECURSIVE getOrFromDefaulting(_, _, _, _, _)
\* getOr as it would be if an undefined value at the end of the path were
\* replaced by the default
getOrFromDefaulting(h, object, p, defaultValue, k) ==
  IF Len(p) = 0 THEN Ret(IF k > 0 /\ object = Undef THEN defaultValue ELSE object, k)
  ELSE LET nextKey == Head(p)
           nextPath == Tail(p)
       IN  IF KeyThrows(h, nextKey) \/ ToObjectThrows(object) THEN Throw(k + 1)
           ELSE IF ~HasOwnProperty(h, object, nextKey) THEN Ret(defaultValue, k + 1)
           ELSE getOrFromDefaulting(h, Get(h, object, nextKey), nextPath, defaultValue, k + 1)

RECURSIVE getOrFrom(_, _, _, _, _)
\* getOr after k keys have been checked; hasOwnProperty.call makes nextKey a
\* property key, then object an Object, and either can raise a TypeError
getOrFrom(h, object, p, defaultValue, k) ==
  IF Len(p) = 0 THEN Ret(object, k)
  ELSE LET nextKey == Head(p)
           nextPath == Tail(p)
       IN  IF KeyThrows(h, nextKey) \/ ToObjectThrows(object) THEN Throw(k + 1)
           ELSE IF ~HasOwnProperty(h, object, nextKey) THEN Ret(defaultValue, k + 1)
           ELSE getOrFrom(h, Get(h, object, nextKey), nextPath, defaultValue, k + 1)

getOr(h, object, p, defaultValue) == getOrFrom(h, object, p, defaultValue, 0)

-----------------------------------------------------------------------------
(* Addresses *)

EnvAddr == 1
RequestAddr == 2
IntentAddr == 3
SlotsAddr == 4
SlotAddr == 5
ResolutionsAddr == 6
RpaAddr == 7
AuthAddr(k) == 5 + 4 * k
StatusAddr(k) == 6 + 4 * k
ValuesAddr(k) == 7 + 4 * k
RecordAddr(k) == 8 + 4 * k
\* the addresses an envelope can use, and one per array a call allocates
MaxAddr == 8 + 4 * MaxAuth + MaxRepeat + 1
Addr == 1..MaxAddr

\* a fresh address, above every cell in use: where an array literal is allocated
Alloc(h) == CHOOSE a \in Addr : \A b \in Addr : b >= a <=> (\A c \in Addr : c >= b => h[c].kind = "free")

EmptyHeap == [a \in Addr |-> FreeCell]

-----------------------------------------------------------------------------
(* Inputs of getOr: the object o with o.a.b.c = 5 of the testable properties, *)
(* widened with a null, an undefined, a string and an array                  *)

SampleHeap ==
  [a \in Addr |->
     CASE a = 1 -> Obj([a |-> Ref(2), b |-> Ref(4)])
       [] a = 2 -> Obj([b |-> Ref(3), c |-> Null, u |-> Str("ab")])
       [] a = 3 -> Obj([c |-> Num(5), u |-> Undef])
       [] a = 4 -> Arr(<<Num(7)>>)
       [] OTHER -> FreeCell]

SampleKeys == {Str("a"), Str("b"), Str("c"), Str("u"), Str("x"),
               Str("constructor"), Str("length"), Num(0)}
SampleRoots == {Ref(1), Null, Undef, Num(5), Bool(TRUE), Str("ab")}
SampleDefaults == {Null, Num(9)}

SeqsUpTo(S, n) == UNION {[1..k -> S] : k \in 0..n}

\* values of the variables a call does not use
Idle ==
  /\ pc = "start" /\ round = 0 /\ prev = <<None, None>>
  /\ result = None /\ valuesRet = None /\ findRet = Undef
  /\ i = 0 /\ calls = <<>> /\ lookups = 0 /\ emptyValue = Undef

InitGetOr ==
  /\ op = "getOr" /\ Idle
  /\ heap = SampleHeap
  /\ root \in SampleRoots
  /\ path \in SeqsUpTo(SampleKeys, MaxPath)
  /\ def \in SampleDefaults
  /\ envelope = Undef /\ slotName = "" /\ auths = <<>> /\ cut = [at |-> 0, kind |-> "absent"]
  /\ listForm = "array"
  /\ array = Undef /\ pred = [kind |-> "index", hits |-> {}]

-----------------------------------------------------------------------------
(* Inputs of find: an array and a predicate that is true at the indexes hits *)

InitFind ==
  /\ op = "find" /\ Idle
  /\ \/ /\ listForm \in ListForms
        /\ \E elems \in SeqsUpTo({Num(1), Num(2)}, MaxLen) :
             heap = [EmptyHeap EXCEPT ![1] = List(elems, listForm),
                                      ![LengthAddr] = LengthCell(Len(elems), listForm)]
        /\ array = Ref(1)
     \/ /\ listForm = "nullish"
        /\ heap = EmptyHeap
        /\ array \in {Null, Undef}
  /\ \E hits \in SUBSET (0..(MaxLen - 1)) : pred = [kind |-> "index", hits |-> hits]
  /\ def \in {Undef, Num(9)}
  /\ root = Undef /\ path = <<>>
  /\ envelope = Undef /\ slotName = "" /\ auths = <<>> /\ cut = [at |-> 0, kind |-> "absent"]

-----------------------------------------------------------------------------
(* Inputs of getSlotValueId: request envelopes                               *)

\* one entry of resolutionsPerAuthority: null, a number, an array with a
\* matching status, or an object with a status (absent, null, or {code}) and
\* values (absent, null, or an array)
AuthKinds ==
  {[shape |-> "null", status |-> "absent", values |-> "absent"],
   [shape |-> "num", status |-> "absent", values |-> "absent"],
   [shape |-> "arr", status |-> "match", values |-> "absent"]}
  \cup [shape : {"obj"},
        status : {"absent", "null", "match", "nomatch"},
        values : {"absent", "null", "empty", "id", "noid", "nullelem"}]

\* segments of the path below request: 1 intent, 2 slots, 3 the slot,
\* 4 resolutions, 5 resolutionsPerAuthority; at = 0: the envelope is whole
CutKinds == {"absent", "null", "undef", "num", "str"}
NoCut == [at |-> 0, kind |-> "absent"]
Cuts == [at : 1..5, kind : CutKinds]

CutValue(kind) ==
  CASE kind = "null" -> Null
    [] kind = "undef" -> Undef
    [] kind = "num" -> Num(5)
    [] kind = "str" -> Str("ab")

\* the property name of segment seg, pointing at target unless cut there
Segment(c, seg, name, target) ==
  IF c.at = seg
  THEN IF c.kind = "absent" THEN NoProps ELSE name :> CutValue(c.kind)
  ELSE name :> Ref(target)

Reached(c, seg) == c.at = 0 \/ c.at > seg

AuthValue(as, k) ==
  CASE as[k].shape = "null" -> Null
    [] as[k].shape = "num" -> Num(5)
    [] as[k].shape \in {"obj", "arr"} -> Ref(AuthAddr(k))

AuthCell(as, k) ==
  [kind |-> as[k].shape,
   props |->
      (IF as[k].shape = "arr" THEN Arr(<<>>).props ELSE [authority |-> Str("a")])
      @@ (CASE as[k].status = "absent" -> NoProps
            [] as[k].status = "null" -> [status |-> Null]
            [] OTHER -> [status |-> Ref(StatusAddr(k))])
      @@ (CASE as[k].values = "absent" -> NoProps
            [] as[k].values = "null" -> [values |-> Null]
            [] OTHER -> [values |-> Ref(ValuesAddr(k))])]

StatusCell(as, k) ==
  Obj([code |-> IF as[k].status = "match" THEN ER_SUCCESS_MATCH
                ELSE Str("ER_SUCCESS_NO_MATCH")])

ValuesCell(as, k) ==
  CASE as[k].values = "empty" -> Arr(<<>>)
    [] as[k].values = "nullelem" -> Arr(<<Null>>)
    [] OTHER -> Arr(<<Ref(RecordAddr(k))>>)

RecordCell(as, k) ==
  IF as[k].values = "id" THEN Obj([id |-> Str("123"), name |-> Str("Paris")])
  ELSE Obj([name |-> Str("Paris")])

EnvelopeHeap(type, c, as, form) ==
  [a \in Addr |->
     CASE a = EnvAddr -> Obj([version |-> Str("1.0"), request |-> Ref(RequestAddr)])
       [] a = RequestAddr -> Obj([type |-> Str(type)] @@ Segment(c, 1, "intent", IntentAddr))
       [] a = IntentAddr /\ Reached(c, 1) ->
            Obj([name |-> Str("GetCity")] @@ Segment(c, 2, "slots", SlotsAddr))
       [] a = SlotsAddr /\ Reached(c, 2) -> Obj(Segment(c, 3, "city", SlotAddr))
       [] a = SlotAddr /\ Reached(c, 3) ->
            Obj([name |-> Str("city"), value |-> Str("ab")]
                @@ Segment(c, 4, "resolutions", ResolutionsAddr))
       [] a = ResolutionsAddr /\ Reached(c, 4) ->
            Obj(Segment(c, 5, "resolutionsPerAuthority", RpaAddr))
       [] a = RpaAddr /\ Reached(c, 5) ->
            List([k \in 1..Len(as) |-> AuthValue(as, k)], form)
       [] a = LengthAddr /\ Reached(c, 5) -> LengthCell(Len(as), form)
       [] \E k \in 1..Len(as) : a = AuthAddr(k) /\ as[k].shape \in {"obj", "arr"} ->
            AuthCell(as, (a - 5) \div 4)
       [] \E k \in 1..Len(as) : a = StatusAddr(k) /\ as[k].status \in {"match", "nomatch"} ->
            StatusCell(as, (a - 6) \div 4)
       [] \E k \in 1..Len(as) : a = ValuesAddr(k) /\ as[k].values \in {"empty", "id", "noid", "nullelem"} ->
            ValuesCell(as, (a - 7) \div 4)
       [] \E k \in 1..Len(as) : a = RecordAddr(k) /\ as[k].values \in {"id", "noid"} ->
            RecordCell(as, (a - 8) \div 4)
       [] OTHER -> FreeCell]

\* the lists that are not arrays are tried with at most one entry
InitSlot ==
  /\ op = "slot" /\ Idle
  /\ \E type \in {"IntentRequest", "LaunchRequest"}, name \in {"city", "constructor"} :
       /\ slotName = name
       /\ \/ /\ type = "IntentRequest" /\ name = "city"
             /\ cut = NoCut /\ auths \in SeqsUpTo(AuthKinds, MaxAuth)
             /\ listForm = "array"
          \/ /\ type = "IntentRequest" /\ name = "city"
             /\ cut = NoCut /\ auths \in SeqsUpTo(AuthKinds, 1)
             /\ listForm \in ListForms \ {"array"}
          \/ /\ type = "IntentRequest" /\ name = "city"
             /\ cut \in Cuts /\ auths = <<>>
             /\ listForm = "array"
          \/ /\ ~(type = "IntentRequest" /\ name = "city")
             /\ cut = NoCut /\ auths \in SeqsUpTo(AuthKinds, 1)
             /\ listForm = "array"
       /\ heap = EnvelopeHeap(type, cut, auths, listForm)
  /\ envelope = Ref(EnvAddr)
  /\ root = Undef /\ path = <<>> /\ def = Undef
  /\ array = Undef /\ pred = [kind |-> "status", hits |-> {}]

Init == InitGetOr \/ InitFind \/ InitSlot

-----------------------------------------------------------------------------
(* getOr, called on its own *)

GetOrCall ==
  /\ op = "getOr" /\ pc = "start"
  /\ result' = getOr(heap, root, path, def)
  /\ pc' = "done"
  /\ UNCHANGED <<op, heap, root, path, def, envelope, slotName, auths, cut, listForm, array,
                 pred, i, calls, findRet, emptyValue, lookups, valuesRet, round, prev>>

-----------------------------------------------------------------------------
(* find: lines 29-36, one action per turn of the loop *)

\* the predicate applied to array[i]: the caller's (true at the indexes hits),
\* or the arrow function of line 58
Predicate(h, p, elem, idx) ==
  IF p.kind = "index" THEN Ret(Bool(idx \in p.hits), 0)
  ELSE LET code == getOr(h, elem, <<Str("status"), Str("code")>>, Undef)
       IN  IF code.kind = "throw" THEN code
           ELSE Ret(Bool(code.val = ER_SUCCESS_MATCH), code.looked)

\* the loop test as it would be if it stopped one element short
InBoundsShort(h, a, idx) ==
  IF IsNullish(a) THEN Throw(0)
  ELSE Only({IF length.kind = "throw" THEN Throw(0)
             ELSE Ret(Bool(LessThan(idx + 1, length)), 0) :
               length \in {ToNumber(h, Get(h, a, Str("length")))}})

\* i < array.length: array.length is read, which raises a TypeError when
\* array is null or undefined, and made a number, which raises one when the
\* length is an object that cannot be converted; the test is false when the
\* number is NaN (array.length undefined, say)
InBounds(h, a, idx) ==
  IF IsNullish(a) THEN Throw(0)
  ELSE Only({IF length.kind = "throw" THEN Throw(0)
             ELSE Ret(Bool(LessThan(idx, length)), 0) :
               length \in {ToNumber(h, Get(h, a, Str("length")))}})

\* find returns v: to its caller when called on its own, else to line 56
FindReturns(v) ==
  /\ findRet' = v
  /\ IF op = "find"
     THEN result' = Ret(v, 0) /\ pc' = "done"
     ELSE result' = result /\ pc' = "select"

FindCall ==
  /\ op = "find" /\ pc = "start"
  /\ i' = 0
  /\ pc' = "loop"
  /\ UNCHANGED <<op, heap, root, path, def, envelope, slotName, auths, cut, listForm, array,
                 pred, calls, findRet, emptyValue, lookups, valuesRet, result, round, prev>>

\* the loop as it would be if it kept the first match and scanned to the end
FindStepScanAll ==
  /\ pc = "loop" /\ i <= MaxScan
  /\ \E inBounds \in {InBounds(heap, array, i)} :
     IF inBounds.kind = "throw"
     THEN /\ result' = Throw(0) /\ pc' = "done"
          /\ UNCHANGED <<i, calls, findRet>>
     ELSE IF Truthy(inBounds.val)
     THEN LET elem == Get(heap, array, Num(i))
              test == Predicate(heap, pred, elem, i)
          IN  /\ calls' = Append(calls, i)
              /\ i' = i + 1
              /\ findRet' = IF test.kind = "ret" /\ Truthy(test.val) /\ findRet = Undef
                            THEN elem ELSE findRet
              /\ UNCHANGED <<pc, result>>
     ELSE /\ FindReturns(IF findRet = Undef THEN def ELSE findRet)
          /\ UNCHANGED <<i, calls>>
  /\ UNCHANGED <<op, heap, root, path, def, envelope, slotName, auths, cut, listForm, array,
                 pred, emptyValue, lookups, valuesRet, round, prev>>

\* one turn of the loop: the test of line 30, then the predicate on array[i]
FindStep ==
  /\ pc = "loop" /\ i <= MaxScan
  /\ \E inBounds \in {InBounds(heap, array, i)} :
     IF inBounds.kind = "throw"
     THEN /\ result' = Throw(0) /\ pc' = "done"
          /\ valuesRet' = IF op = "slot" THEN Throw(0) ELSE valuesRet
          /\ UNCHANGED <<i, calls, findRet>>
     ELSE IF Truthy(inBounds.val)
     THEN LET elem == Get(heap, array, Num(i))
              test == Predicate(heap, pred, elem, i)
          IN  /\ calls' = Append(calls, i)
              /\ \/ /\ test.kind = "throw"
                    /\ result' = Throw(0) /\ pc' = "done"
                    /\ valuesRet' = IF op = "slot" THEN Throw(0) ELSE valuesRet
                    /\ UNCHANGED <<i, findRet>>
                 \/ /\ test.kind = "ret" /\ Truthy(test.val)
                    /\ FindReturns(elem)
                    /\ UNCHANGED <<i, valuesRet>>
                 \/ /\ test.kind = "ret" /\ ~Truthy(test.val)
                    /\ i' = i + 1
                    /\ UNCHANGED <<pc, findRet, result, valuesRet>>
     ELSE /\ FindReturns(def)
          /\ UNCHANGED <<i, calls, valuesRet>>
  /\ UNCHANGED <<op, heap, root, path, def, envelope, slotName, auths, cut, listForm, array,
                 pred, emptyValue, lookups, round, prev>>

-----------------------------------------------------------------------------
(* getSlotValueId: line 73 calls getSlotValuesFromMatch (lines 44-64), line *)
(* 74 reads the id                                                          *)

\* AlexaSdk.getRequestType of ask-sdk-core, the request-type discriminator of
\* the platform: requestEnvelope.request.type
getRequestType(h, requestEnvelope) ==
  Get(h, Get(h, requestEnvelope, Str("request")), Str("type"))

SlotPath(name) ==
  <<Str("request"), Str("intent"), Str("slots"), Str(name),
    Str("resolutions"), Str("resolutionsPerAuthority")>>

\* lines 45-55 as they would be without the request type guard of line 46
SlotBeginUnguarded ==
  /\ op = "slot" /\ pc = "start"
  /\ LET e == Alloc(heap)
         slotResolutions == getOr(heap, envelope, SlotPath(slotName), Undef)
     IN  /\ heap' = [heap EXCEPT ![e] = Arr(<<>>)]
         /\ emptyValue' = Ref(e)
         /\ lookups' = slotResolutions.looked
         /\ \/ /\ slotResolutions.kind = "throw"
               /\ valuesRet' = Throw(0) /\ result' = Throw(0) /\ pc' = "done"
               /\ UNCHANGED array
            \/ /\ slotResolutions.kind = "ret" /\ ~Truthy(slotResolutions.val)
               /\ valuesRet' = Ret(Ref(e), 0) /\ pc' = "valuesDone"
               /\ UNCHANGED <<array, result>>
            \/ /\ slotResolutions.kind = "ret" /\ Truthy(slotResolutions.val)
               /\ array' = slotResolutions.val /\ pc' = "loop"
               /\ UNCHANGED <<valuesRet, result>>
  /\ i' = 0
  /\ UNCHANGED <<op, root, path, def, envelope, slotName, auths, cut, listForm,
                 pred, calls, findRet, round, prev>>

\* lines 45-55: the request type guard, the path lookup and the falsy guard
SlotBegin ==
  /\ op = "slot" /\ pc = "start"
  /\ LET e == Alloc(heap)
         slotResolutions == getOr(heap, envelope, SlotPath(slotName), Undef)
     IN  /\ heap' = [heap EXCEPT ![e] = Arr(<<>>)]
         /\ emptyValue' = Ref(e)
         /\ \/ /\ getRequestType(heap, envelope) # IntentRequest
               /\ valuesRet' = Ret(Ref(e), 0) /\ pc' = "valuesDone"
               /\ UNCHANGED <<lookups, array, result>>
            \/ /\ getRequestType(heap, envelope) = IntentRequest
               /\ lookups' = slotResolutions.looked
               /\ \/ /\ slotResolutions.kind = "throw"
                     /\ valuesRet' = Throw(0) /\ result' = Throw(0) /\ pc' = "done"
                     /\ UNCHANGED array
                  \/ /\ slotResolutions.kind = "ret" /\ ~Truthy(slotResolutions.val)
                     /\ valuesRet' = Ret(Ref(e), 0) /\ pc' = "valuesDone"
                     /\ UNCHANGED <<array, result>>
                  \/ /\ slotResolutions.kind = "ret" /\ Truthy(slotResolutions.val)
                     /\ array' = slotResolutions.val /\ pc' = "loop"
                     /\ UNCHANGED <<valuesRet, result>>
  /\ i' = 0
  /\ UNCHANGED <<op, root, path, def, envelope, slotName, auths, cut, listForm,
                 pred, calls, findRet, round, prev>>

\* lines 60-63
SlotSelect ==
  /\ pc = "select"
  /\ LET firstResolution == findRet
     IN  IF ~Truthy(firstResolution) \/ ~Truthy(Get(heap, firstResolution, Str("values")))
         THEN valuesRet' = Ret(emptyValue, 0)
         ELSE valuesRet' = Ret(Get(heap, firstResolution, Str("values")), 0)
  /\ pc' = "valuesDone"
  /\ UNCHANGED <<op, heap, root, path, def, envelope, slotName, auths, cut, listForm, array,
                 pred, i, calls, findRet, emptyValue, lookups, result, round, prev>>

\* line 74 as it would be if the first value were taken off the array
SlotIdShift ==
  /\ pc = "valuesDone"
  /\ result' = getOr(heap, valuesRet.val, <<Num(0), Str("id")>>, Null)
  /\ heap' = IF valuesRet.val.t = "ref" THEN [heap EXCEPT ![valuesRet.val.n] = Arr(<<>>)]
              ELSE heap
  /\ pc' = "done"
  /\ UNCHANGED <<op, root, path, def, envelope, slotName, auths, cut, listForm, array,
                 pred, i, calls, findRet, emptyValue, lookups, valuesRet, round, prev>>

\* line 74
SlotId ==
  /\ pc = "valuesDone"
  /\ result' = getOr(heap, valuesRet.val, <<Num(0), Str("id")>>, Null)
  /\ pc' = "done"
  /\ UNCHANGED <<op, heap, root, path, def, envelope, slotName, auths, cut, listForm, array,
                 pred, i, calls, findRet, emptyValue, lookups, valuesRet, round, prev>>

-----------------------------------------------------------------------------
(* The caller makes the same call again with the same arguments *)

Repeat ==
  /\ pc = "done" /\ round < MaxRepeat
  /\ round' = round + 1
  /\ prev' = <<result, valuesRet>>
  /\ pc' = "start"
  /\ result' = None /\ valuesRet' = None /\ findRet' = Undef
  /\ i' = 0 /\ calls' = <<>> /\ lookups' = 0 /\ emptyValue' = Undef
  /\ array' = IF op = "slot" THEN Undef ELSE array
  /\ UNCHANGED <<op, heap, root, path, def, envelope, slotName, auths, cut, listForm, pred>>

Next == GetOrCall \/ FindCall \/ FindStep \/ SlotBegin \/ SlotSelect \/ SlotId \/ Repeat

Spec == Init /\ [][Next]_vars

\* find called on its own; a call is synchronous and runs to its end
NextFind == FindCall \/ FindStep \/ Repeat
FindSpec == InitFind /\ [][NextFind]_vars /\ WF_vars(NextFind)

-----------------------------------------------------------------------------
(* What the claims say of getOr, stated apart from the code                  *)

\* v itself owns key: v is an object, array or wrapped scalar with that own
\* property; null and undefined own nothing
Owns(h, v, key) == ~IsNullish(v) /\ ToPropertyKey(h, key) \in DOMAIN OwnProps(h, v)

\* v is a container: an object or an array
IsContainer(v) == v.t = "ref"

RECURSIVE OwnedPrefix(_, _, _)
\* how many leading keys of p are owned, each by the value the keys before it lead to
OwnedPrefix(h, v, p) ==
  IF p = <<>> \/ ~Owns(h, v, Head(p)) THEN 0
  ELSE 1 + OwnedPrefix(h, OwnProps(h, v)[ToPropertyKey(h, Head(p))], Tail(p))

RECURSIVE Follow(_, _, _)
\* the value the owned keys p lead to from v
Follow(h, v, p) ==
  IF p = <<>> THEN v ELSE Follow(h, OwnProps(h, v)[ToPropertyKey(h, Head(p))], Tail(p))

GetOrDone == op = "getOr" /\ pc = "done"
OwnedKeys == OwnedPrefix(heap, root, path)
\* the value at which the walk along path stops
StopValue == Follow(heap, root, SubSeq(path, 1, OwnedKeys))

\* C3: getOr with a non-empty path returns the default, without raising and
\* without inspecting the remaining keys, as soon as the current value does not
\* itself own the next key (own properties only); when every key is owned the
\* result is the value at the end of the path.
C3_MissingKeyGivesDefault ==
  (GetOrDone /\ path # <<>>) =>
     /\ result.kind = "ret"
     /\ OwnedKeys < Len(path) => (result.val = def /\ result.looked = OwnedKeys + 1)
     /\ OwnedKeys = Len(path) => result.val = StopValue

\* C4: getOr is total: it always returns a value; when a key still has to be
\* resolved against a value that is not a container (null, undefined, number,
\* boolean, string) the result is the default.
C4_Total ==
  GetOrDone =>
     /\ result.kind = "ret"
     /\ \A k \in 0..(Len(path) - 1) :
          (k <= OwnedKeys /\ ~IsContainer(Follow(heap, root, SubSeq(path, 1, k))))
             => result.val = def

\* C5: getOr with an empty path returns the root itself whatever the default;
\* a path whose keys are all present and whose final value is undefined yields
\* undefined, not the default, while a path whose last key alone is absent
\* yields the default.
C5_EmptyPathAndUndefined ==
  GetOrDone =>
     /\ path = <<>> => result = Ret(root, 0)
     /\ (OwnedKeys = Len(path) /\ StopValue = Undef)
           => (result.kind = "ret" /\ result.val = Undef)
     /\ (path # <<>> /\ OwnedKeys = Len(path) - 1 /\ IsContainer(StopValue))
           => (result.kind = "ret" /\ result.val = def)

\* C5 happens: a key present with the value undefined was read, with a default
\* that is not undefined
C5_Witness ==
  /\ GetOrDone /\ path # <<>> /\ OwnedKeys = Len(path) /\ StopValue = Undef
  /\ def # Undef /\ result.val = Undef

-----------------------------------------------------------------------------
(* What the claims say of find                                               *)

\* the list handed to find is a sequence: an array, or an object whose length
\* is, once made a number, the number of its elements. A list whose length
\* is infinite or cannot be made a number, and null and undefined, are none
IsSequence == listForm \notin {"lengthInfinity", "lengthObject", "nullish"}

\* the length of the sequence handed to find
ArrayLength ==
  IF listForm = "lengthTrue" THEN 1
  ELSE Cardinality({k \in 0..MaxLen : DigitString(k) \in DOMAIN heap[array.n].props})

\* the indexes of the sequence at which the caller's predicate is true
Hits == {k \in 0..(ArrayLength - 1) : k \in pred.hits}

Lowest(S) == CHOOSE k \in S : \A j \in S : k <= j

\* the entries of resolutionsPerAuthority whose status.code is ER_SUCCESS_MATCH
MatchIdx ==
  {k \in 1..Len(auths) : auths[k].shape \in {"obj", "arr"} /\ auths[k].status = "match"}

\* number; on a list of infinite length find returned only at a match
CallOrder ==
  op = "find" =>
     /\ calls = [k \in 1..Len(calls) |-> k - 1]
     /\ \A k \in 1..Len(calls) : \A h \in pred.hits : calls[k] <= h
     /\ IsSequence =>
          /\ Len(calls) <= ArrayLength
          /\ pc = "done" => Len(calls) = IF Hits = {} THEN ArrayLength ELSE Lowest(Hits) + 1
     /\ listForm \in {"lengthObject", "nullish"} => calls = <<>>
     /\ (listForm = "lengthInfinity" /\ pc = "done") =>
          (pred.hits # {} /\ Len(calls) = Lowest(pred.hits) + 1)

\* the scan has an end: the list has a finite length or a match
ScanEnds == listForm # "lengthInfinity" \/ pred.hits # {}


-----------------------------------------------------------------------------
(* What the claims say of getSlotValuesFromMatch and getSlotValueId          *)

\* the request type of the envelope
ReqType == heap[RequestAddr].props["type"]

\* v is an empty sequence
IsEmptySeq(h, v) == v.t = "ref" /\ h[v.n] = Arr(<<>>)

\* the envelope has the slot asked for, with a resolutionsPerAuthority list
\* that has an ER_SUCCESS_MATCH authority
HasMatch == cut = NoCut /\ slotName = "city" /\ MatchIdx # {}

\* the first ER_SUCCESS_MATCH authority has a values array
MatchHasValues == HasMatch /\ auths[Lowest(MatchIdx)].values \in {"empty", "id", "noid", "nullelem"}

ValuesReturned == op = "slot" /\ pc \in {"valuesDone", "done"}

\* C1: neither getSlotValuesFromMatch nor getSlotValueId ever raises: every
\* "not found" condition ends in a returned empty sequence or null.
C1_NeverRaises ==
  op = "slot" => (valuesRet.kind # "throw" /\ result.kind # "throw")

\* C2: on an IntentRequest envelope getSlotValuesFromMatch returns exactly (the
\* same reference) the values of the first authority, in list order, whose
\* status.code is ER_SUCCESS_MATCH, and otherwise an empty sequence; when the
\* first matching authority has no values the result is empty even if a later
\* authority matches and has values.
C2_FirstMatchValues ==
  (ValuesReturned /\ ReqType = IntentRequest) =>
     /\ valuesRet.kind = "ret"
     /\ IF MatchHasValues THEN valuesRet.val = Ref(ValuesAddr(Lowest(MatchIdx)))
        ELSE IsEmptySeq(heap, valuesRet.val)

\* element 0 of the sequence getSlotValuesFromMatch returned has an id
FirstValueHasId ==
  LET first == Get(heap, valuesRet.val, Num(0))
  IN  first.t = "ref" /\ "id" \in DOMAIN heap[first.n].props

\* C6: getSlotValueId returns the id of element 0 of the sequence returned by
\* getSlotValuesFromMatch, and null when that sequence is empty or its first
\* element has no id; null for a non-IntentRequest envelope and when
\* resolutionsPerAuthority is absent.
C6_IdOfFirstValue ==
  (op = "slot" /\ pc = "done" /\ valuesRet.kind = "ret") =>
     /\ result.kind = "ret"
     /\ result.val = IF FirstValueHasId
                     THEN heap[Get(heap, valuesRet.val, Num(0)).n].props["id"]
                     ELSE Null
     /\ (ReqType # IntentRequest \/ cut.at = 5) => result.val = Null

\* C7: when the request type is not IntentRequest, getSlotValuesFromMatch
\* returns an empty sequence at once: no path lookup and no scan of a
\* resolution list is made, whatever the envelope carries.
C7_NotIntentRequest ==
  (op = "slot" /\ ReqType # IntentRequest /\ pc # "start") =>
     /\ pc \in {"valuesDone", "done"}
     /\ valuesRet.kind = "ret" /\ valuesRet.val = emptyValue
     /\ IsEmptySeq(heap, valuesRet.val)
     /\ lookups = 0 /\ calls = <<>> /\ array = Undef

\* C7 happens: a non-IntentRequest envelope whose slot has a matching
\* authority with values was answered
C7_Witness ==
  /\ op = "slot" /\ ReqType # IntentRequest /\ pc = "valuesDone"
  /\ HasMatch /\ MatchHasValues /\ auths[1].values = "id"

-----------------------------------------------------------------------------
(* What the claims say of all four functions                                 *)

\* two outcomes are the same result: equal, or both a new empty sequence
SameOutcome(h, r1, r2) ==
  \/ r1 = r2
  \/ r1.kind = "ret" /\ r2.kind = "ret" /\ IsEmptySeq(h, r1.val) /\ IsEmptySeq(h, r2.val)

\* a step leaves every argument and every object reachable from one as it was,
\* and a repeated call ends as the call before it
InputsKept ==
  /\ \A a \in Addr : heap[a].kind # "free" => heap'[a] = heap[a]
  /\ <<root, path, def, envelope, slotName, pred>>' = <<root, path, def, envelope, slotName, pred>>
  /\ op = "find" => array' = array
  /\ (pc' = "done" /\ round' > 0) =>
        /\ SameOutcome(heap', result', prev'[1])
        /\ SameOutcome(heap', valuesRet', prev'[2])

\* C10: no operation mutates its inputs: the envelope, every nested structure,
\* the path given to getOr and the array given to find are unchanged by every
\* step, and a call repeated with the same arguments gives the same result.
C10_NoMutation == [][InputsKept]_vars

\* C10 happens: a repeated getSlotValueId call returned the values of a match
C10_Witness ==
  /\ op = "slot" /\ pc = "done" /\ round > 0
  /\ MatchHasValues /\ valuesRet.val = Ref(ValuesAddr(Lowest(MatchIdx)))
  /\ result.val = Str("123")

====
